---- MODULE Spec2Model ----
(***************************************************************************)
(* Force-directed graph engine of js/network-graph.js (class NetworkGraph  *)
(* and its exported functions), as a state machine.                        *)
(*                                                                         *)
(* Numbers.  The source computes in IEEE doubles.  Here lengths and        *)
(* velocities are fixed-point integers, F to the model unit; zoom is kept  *)
(* in tenths; Math.random() returns thousandths.  A product or quotient is *)
(* rounded toward zero where the double would keep a fraction.  What an    *)
(* operation reads, writes and skips is that of the source.                *)
(*                                                                         *)
(* Objects.  parseData builds fresh node objects on every call.  A node    *)
(* object is named by the pair (gen, idx): gen counts the parseData calls  *)
(* of its instance, idx is its place in this.nodes.  draggedNode and       *)
(* selectedNode hold such a name (NoNode for null), so that a reference to *)
(* a node of an earlier layout is told apart from the live node.           *)
(***************************************************************************)
EXTENDS Integers, Sequences, FiniteSets, TLC

VARIABLES
    graphs,     \* the registry `graphs`: element id -> instance (0: no entry)
    insts,      \* every NetworkGraph constructed so far, in order of construction
    raf,        \* requestAnimationFrame callbacks waiting for the next frame
    clock,      \* display frames run since the last startSimulation
    budget,     \* host and pointer events the environment may still issue
    pathIn,     \* findShortestPath taken alone: its arguments
    pathOut,    \* findShortestPath taken alone: its result
    tv,         \* js/timeline-visualization.js: the registry `timelines`, the
                \* TimelineVisualization objects and the global `vis`
    cyto,       \* the Cytoscape graph module: its loader flags, the script
                \* elements of the document, the registry `cytoscapeGraphs`
                \* and the CytoscapeNetworkGraph objects
    geo         \* js/helper.js: the registry `maps` and the GeospatialMap objects

vars == <<graphs, insts, raf, clock, budget, pathIn, pathOut, tv, cyto, geo>>

----------------------------------------------------------------------------
(* Bounds of the environment *)

\* NetworkGraph objects constructed in one behaviour
MaxInst == 2
\* host and pointer events in one behaviour
MaxEvents == 3
\* events arrive during the first EventWindow frames of a run, or when no
\* frame callback is pending
EventWindow == 1
\* relationships of a graph handed to findShortestPath taken alone
MaxPathEdges == 3

MaxViewEvents == 12

MaxRuns == 3

MaxTimelineEvents == 5

\* calls of the map functions of js/helper.js
MaxMapEvents == 6

\* calls of the exported functions of the Cytoscape graph
MaxCytoEvents == 4

----------------------------------------------------------------------------
(* Arithmetic *)

\* fixed-point steps per model unit
F == 10

Abs(a) == IF a < 0 THEN -a ELSE a

\* a / b rounded toward zero, b > 0
Quot(a, b) == IF a >= 0 THEN a \div b ELSE -((-a) \div b)

Max(a, b) == IF a >= b THEN a ELSE b

Min(a, b) == IF a <= b THEN a ELSE b

RECURSIVE SqrtIter(_, _, _)
SqrtIter(n, lo, hi) ==
    IF lo >= hi THEN lo
    ELSE LET mid == (lo + hi + 1) \div 2
         IN  IF mid * mid <= n THEN SqrtIter(n, mid, hi)
                               ELSE SqrtIter(n, lo, mid - 1)

\* Math.sqrt, rounded down
sqrt(n) == SqrtIter(n, 0, 46340)

\* Math.cos and Math.sin of (index / length) * 2 * PI, for the lengths 1, 2
\* and 4, whose angles are whole quarter turns
cos(index, length) ==
    LET q == (4 * index) \div length
    IN  CASE q = 0 -> 1 [] q = 1 -> 0 [] q = 2 -> -1 [] OTHER -> 0

sin(index, length) ==
    LET q == (4 * index) \div length
    IN  CASE q = 0 -> 0 [] q = 1 -> 1 [] q = 2 -> 0 [] OTHER -> -1

----------------------------------------------------------------------------
(* Values *)

NoNode == [gen |-> 0, idx |-> 0]

ElementIds == {"graph"}

\* this.svg.getBoundingClientRect(): the element is laid out at the origin
\* of the page, one pixel to the model unit at zoom 1
SvgRect == [left |-> 0, top |-> 0, width |-> 1000, height |-> 800]

\* pointer positions (clientX, clientY)
Pointers == {[x |-> 500, y |-> 400], [x |-> 700, y |-> 400]}

\* the two values Math.random() returns for one node (the layer draw, the
\* radiusVariation draw), in thousandths of [0, 1): both low, both high
RandomPairs == {[layer |-> 0, variation |-> 0], [layer |-> 500, variation |-> 999]}

SeqFilter(s, Test(_)) ==
    LET RECURSIVE Go(_)
        Go(k) == IF k > Len(s) THEN <<>>
                 ELSE IF Test(s[k]) THEN <<s[k]>> \o Go(k + 1) ELSE Go(k + 1)
    IN  Go(1)

\* Array.prototype.find on this.nodes by id: the index of the first node
\* with that id, 0 for undefined
FindNode(nodes, id) ==
    IF \E k \in 1..Len(nodes) : nodes[k].id = id
    THEN CHOOSE k \in 1..Len(nodes) :
            nodes[k].id = id /\ \A j \in 1..(k - 1) : nodes[j].id # id
    ELSE 0

----------------------------------------------------------------------------
(* Graph model: parseData *)

\* ring spacing: baseRadius = 180 * layer, layer = floor(dist / 180)
ringSpacing == 180

\* radiusVariation = (Math.random() - 0.5) * 40
radiusVariationSpan == 40

\* One node of this.nodes.  rnd = [layer, variation] holds the two values
\* Math.random() returns for this node (unused for the centre node).
\* a node laid out on its ring whether or not it is the centre entity
parseNodeOnRing(node, index, length, centerEntityId, rnd, gen) ==
    LET layer == (rnd.layer * 2) \div 1000 + 1
        radiusVariation == Quot((rnd.variation - 500) * radiusVariationSpan * F, 1000)
        x == cos(index, length) * (ringSpacing * F * layer + radiusVariation)
        y == sin(index, length) * (ringSpacing * F * layer + radiusVariation)
    IN  [id |-> node.id,
         riskScore |-> node.riskScore,
         isCenter |-> node.id = centerEntityId,
         x |-> x, y |-> y, vx |-> 0, vy |-> 0,
         radius |-> 24,
         layer |-> sqrt(x * x + y * y) \div (ringSpacing * F),
         gen |-> gen]

parseNode(node, index, length, centerEntityId, rnd, gen) ==
    LET isCenter == node.id = centerEntityId
        layer == (rnd.layer * 2) \div 1000 + 1
        baseRadius == ringSpacing * F * layer
        radiusVariation == Quot((rnd.variation - 500) * radiusVariationSpan * F, 1000)
        x == IF isCenter THEN 0
             ELSE cos(index, length) * (baseRadius + radiusVariation)
        y == IF isCenter THEN 0
             ELSE sin(index, length) * (baseRadius + radiusVariation)
    IN  [id |-> node.id,
         riskScore |-> node.riskScore,
         isCenter |-> isCenter,
         x |-> x, y |-> y, vx |-> 0, vy |-> 0,
         radius |-> IF isCenter THEN 32 ELSE 24,
         layer |-> IF isCenter THEN 0
                   ELSE sqrt(x * x + y * y) \div (ringSpacing * F),
         gen |-> gen]

\* this.nodes after parseData; index is the zero-based map index
parseNodes(data, rnd, gen) ==
    [k \in 1..Len(data.nodes) |->
        parseNode(data.nodes[k], k - 1, Len(data.nodes), data.centerEntityId,
                  rnd[k], gen)]

\* One edge of this.edges: every relationship is kept as it comes
parseEdge(rel) ==
    [id |-> rel.id,
     source |-> rel.sourceEntityId,
     target |-> rel.targetEntityId,
     strength |-> IF rel.strength = "" THEN "Medium" ELSE rel.strength]

parseEdges(data) ==
    [k \in 1..Len(data.relationships) |-> parseEdge(data.relationships[k])]

\* the values Math.random() may return during one parseData
RandomDraws(data) ==
    [1..Len(data.nodes) -> RandomPairs]

----------------------------------------------------------------------------
(* Presentation: the attributes of the SVG elements that render, the       *)
(* highlight operations and clearPathHighlight write.  "none" is an absent *)
(* attribute.  Element geometry (x1, y1, transform) mirrors the node       *)
(* positions and is not kept.                                              *)

getEdgeColor(strength) ==
    CASE strength = "Strong" -> "#475569"
      [] strength = "Medium" -> "#94a3b8"
      [] strength = "Weak" -> "#cbd5e1"
      [] OTHER -> "#94a3b8"

getEdgeWidth(strength) ==
    CASE strength = "Strong" -> 3
      [] strength = "Medium" -> 2
      [] strength = "Weak" -> 1
      [] OTHER -> 2

getRiskColor(score) ==
    IF score >= 80 THEN "#ef4444"
    ELSE IF score >= 60 THEN "#f59e0b"
    ELSE IF score >= 40 THEN "#3b82f6"
    ELSE "#22c55e"

\* the <g data-edge-id> of one edge: its <line>
edgeGroup(edge) ==
    [edgeId |-> edge.id,
     pathHighlight |-> FALSE,
     stroke |-> getEdgeColor(edge.strength),
     strokeWidth |-> getEdgeWidth(edge.strength),
     animates |-> 0]

\* this.edgesGroup after renderEdges: one group per edge whose two ends are
\* found among the nodes
renderEdges(nodes, edges) ==
    LET Drawn(e) == FindNode(nodes, e.source) # 0 /\ FindNode(nodes, e.target) # 0
        kept == SeqFilter(edges, Drawn)
    IN  [k \in 1..Len(kept) |-> edgeGroup(kept[k])]

\* the <g class="node-group"> of one node: its <circle> elements in document
\* order (layer ring, risk ring, node circle), querySelector('circle')
\* being the first
nodeGroup(node) ==
    [nodeId |-> node.id,
     circles |->
        (IF ~node.isCenter /\ node.layer > 0
         THEN <<[kind |-> "layerRing", stroke |-> "#e2e8f0", strokeWidth |-> 1,
                 filter |-> "none"]>>
         ELSE <<>>)
        \o
        (IF node.riskScore >= 60
         THEN <<[kind |-> "riskRing", stroke |-> getRiskColor(node.riskScore),
                 strokeWidth |-> 3, filter |-> "none"]>>
         ELSE <<>>)
        \o
        <<[kind |-> "circle",
           stroke |-> IF node.isCenter THEN "#1e40af" ELSE "#fff",
           strokeWidth |-> IF node.isCenter THEN 4 ELSE 2,
           filter |-> "shadow"]>>]

renderNodes(nodes) == [k \in 1..Len(nodes) |-> nodeGroup(nodes[k])]

----------------------------------------------------------------------------
(* Force simulation: applyForces *)

maxSteps == 150

repulsionStrength == 6000

\* attractionStrength = 0.06, centerStrength = 0.02, layerStrength = 0.03,
\* the centre node's 0.1: in hundredths
attractionStrength == 6

centerStrength == 2

layerStrength == 3

anchorStrength == 10

\* damping = 0.8, in tenths
damping == 8

maxDist == 500

\* alpha = 1 - steps / maxSteps, as its numerator over maxSteps
alphaOf(steps) == maxSteps - steps

\* dist of the pair n1, n2 after `if (dist < 1) dist = 1`: what the
\* repulsion divides by
pairDist(n1, n2) ==
    LET dx == n1.x - n2.x
        dy == n1.y - n2.y
        d0 == sqrt(dx * dx + dy * dy)
    IN  IF d0 < F THEN F ELSE d0

\* the (fx, fy) of the repulsion of the pair n1 = nodes[i], n2 = nodes[j]
pairRepulsion(n1, n2, alpha) ==
    LET dx == n1.x - n2.x
        dy == n1.y - n2.y
        dist == pairDist(n1, n2)
        \* layerMultiplier 1.5 or 1.0, doubled
        layerMultiplier == IF n1.layer = n2.layer THEN 3 ELSE 2
        scaled == (repulsionStrength * layerMultiplier * F * F * F) \div 2
        force == Quot(Quot(scaled * alpha, maxSteps), dist * dist)
    IN  [fx |-> Quot(dx * force, dist), fy |-> Quot(dy * force, dist)]

\* dist of an edge, and Math.max(1, dist): what the attraction divides by
edgeDist(source, target) ==
    LET dx == target.x - source.x
        dy == target.y - source.y
    IN  sqrt(dx * dx + dy * dy)

edgeDivisor(dist) == Max(F, dist)

\* the (fx, fy) of the attraction along one edge, between source and target
edgeAttraction(source, target, strength, alpha) ==
    LET dx == target.x - source.x
        dy == target.y - source.y
        dist == edgeDist(source, target)
        divisor == edgeDivisor(dist)
        targetDist == F * (IF strength = "Strong" THEN 100
                           ELSE IF strength = "Medium" THEN 140 ELSE 180)
        force == Quot((dist - targetDist) * attractionStrength * alpha,
                      100 * maxSteps)
    IN  [fx |-> Quot(dx * force, divisor), fy |-> Quot(dy * force, divisor)]

\* the first loop: every pair i < j pushes both of its nodes, the dragged
\* node like any other
RECURSIVE repelPairs(_, _, _, _)
repelPairs(nodes, i, j, alpha) ==
    IF i > Len(nodes) THEN nodes
    ELSE IF j > Len(nodes) THEN repelPairs(nodes, i + 1, i + 2, alpha)
    ELSE LET f == pairRepulsion(nodes[i], nodes[j], alpha)
         IN  repelPairs([nodes EXCEPT ![i].vx = @ + f.fx, ![i].vy = @ + f.fy,
                                      ![j].vx = @ - f.fx, ![j].vy = @ - f.fy],
                        i, j + 1, alpha)

\* the second loop: every edge whose two ends are found pulls both ends
RECURSIVE attractEdges(_, _, _, _)
attractEdges(nodes, edges, k, alpha) ==
    IF k > Len(edges) THEN nodes
    ELSE LET source == FindNode(nodes, edges[k].source)
             target == FindNode(nodes, edges[k].target)
             f == edgeAttraction(nodes[source], nodes[target], edges[k].strength,
                                 alpha)
             s1 == [nodes EXCEPT ![source].vx = @ + f.fx, ![source].vy = @ + f.fy]
             s2 == [s1 EXCEPT ![target].vx = @ - f.fx, ![target].vy = @ - f.fy]
         IN  IF source = 0 \/ target = 0
             THEN attractEdges(nodes, edges, k + 1, alpha)
             ELSE attractEdges(s2, edges, k + 1, alpha)

\* currentDist of the layer retention, and whether the retention force is
\* applied (a node off the centre with a ring to stay on)
currentDist(node) == sqrt(node.x * node.x + node.y * node.y)

layerRetained(node, dist) ==
    ~node.isCenter /\ dist > 0 /\ node.layer * ringSpacing * F > 0

\* the last loop's body without the boundary constraints
integrateUnbounded(node, alpha) ==
    LET vx1 == IF node.isCenter
               THEN node.vx - Quot(node.x * anchorStrength * alpha, 100 * maxSteps)
               ELSE node.vx - Quot(node.x * centerStrength * alpha, 100 * maxSteps)
        vy1 == IF node.isCenter
               THEN node.vy - Quot(node.y * anchorStrength * alpha, 100 * maxSteps)
               ELSE node.vy - Quot(node.y * centerStrength * alpha, 100 * maxSteps)
        dist == currentDist(node)
        retained == layerRetained(node, dist)
        targetDist == node.layer * ringSpacing * F
        force == Quot((dist - targetDist) * layerStrength * alpha, 100 * maxSteps)
        vx2 == IF retained THEN vx1 - Quot(node.x * force, dist) ELSE vx1
        vy2 == IF retained THEN vy1 - Quot(node.y * force, dist) ELSE vy1
        vx3 == Quot(vx2 * damping, 10)
        vy3 == Quot(vy2 * damping, 10)
    IN  [node EXCEPT !.vx = vx3, !.vy = vy3,
                     !.x = node.x + vx3, !.y = node.y + vy3]

\* the body of the last loop for one node that is not the dragged node:
\* centring, layer retention, damping, integration, boundary
integrate(node, alpha) ==
    LET vx1 == IF node.isCenter
               THEN node.vx - Quot(node.x * anchorStrength * alpha, 100 * maxSteps)
               ELSE node.vx - Quot(node.x * centerStrength * alpha, 100 * maxSteps)
        vy1 == IF node.isCenter
               THEN node.vy - Quot(node.y * anchorStrength * alpha, 100 * maxSteps)
               ELSE node.vy - Quot(node.y * centerStrength * alpha, 100 * maxSteps)
        dist == currentDist(node)
        retained == layerRetained(node, dist)
        targetDist == node.layer * ringSpacing * F
        force == Quot((dist - targetDist) * layerStrength * alpha, 100 * maxSteps)
        vx2 == IF retained THEN vx1 - Quot(node.x * force, dist) ELSE vx1
        vy2 == IF retained THEN vy1 - Quot(node.y * force, dist) ELSE vy1
        vx3 == Quot(vx2 * damping, 10)
        vy3 == Quot(vy2 * damping, 10)
    IN  [node EXCEPT
            !.vx = vx3, !.vy = vy3,
            !.x = Max(-(maxDist * F), Min(maxDist * F, node.x + vx3)),
            !.y = Max(-(maxDist * F), Min(maxDist * F, node.y + vy3))]

\* whether nodes[k] is the object this.draggedNode refers to
isDragged(nodes, k, draggedNode) ==
    draggedNode = [gen |-> nodes[k].gen, idx |-> k]

applyForces(nodes, edges, draggedNode, alpha) ==
    LET pushed == attractEdges(repelPairs(nodes, 1, 2, alpha), edges, 1, alpha)
    IN  [k \in 1..Len(nodes) |->
            IF isDragged(nodes, k, draggedNode) THEN pushed[k]
            ELSE integrate(pushed[k], alpha)]

----------------------------------------------------------------------------
(* A NetworkGraph object.  Besides the fields of the class it records what *)
(* the claims speak of and the object does not keep: destroyed (destroy    *)
(* was called: the container is emptied and its listeners are gone), runs  *)
(* (the calls of startSimulation), stepsSinceStart (the calls of           *)
(* applyForces since the last startSimulation), lastRunSteps (`steps` of   *)
(* the tick closure made by the last startSimulation), stepsInFrame (the   *)
(* calls of applyForces in the last display frame), pendingAtDestroy (the  *)
(* tick callbacks of the object that were waiting when destroy was called),*)
(* hlPhase (the highlight calls since the last render), afterPath (the     *)
(* last highlight call was highlightPath) and askedPath (the path that     *)
(* call computed, empty when there is none) and returned (the value the    *)
(* last exported function called for the object returned).                 *)

defaultViewBox == [x |-> -500 * F, y |-> -400 * F, width |-> 1000 * F, height |-> 800 * F]

\* startSimulation: the flag, and the first requestAnimationFrame(tick) of a
\* new tick closure with steps = 0.  Gives the object and the callback.
startSimulation(g, i) ==
    [g |-> [g EXCEPT !.simulationRunning = TRUE,
                     !.runs = @ + 1,
                     !.stepsSinceStart = 0,
                     !.lastRunSteps = 0],
     cb |-> [inst |-> i, run |-> g.runs + 1, steps |-> 0]]

\* the constructor up to init's render(): fields, parseData, createSVG, render
constructed(data, rnd) ==
    LET nodes == parseNodes(data, rnd, 1)
        edges == parseEdges(data)
    IN  [data |-> data,
         nodes |-> nodes,
         edges |-> edges,
         gen |-> 1,
         selectedNode |-> NoNode,
         draggedNode |-> NoNode,
         isPanning |-> FALSE,
         panStart |-> [x |-> 0, y |-> 0],
         viewBox |-> defaultViewBox,
         zoom |-> 10,
         simulationRunning |-> FALSE,
         domEdges |-> renderEdges(nodes, edges),
         domNodes |-> renderNodes(nodes),
         destroyed |-> FALSE,
         pendingAtDestroy |-> 0,
         hlPhase |-> "fresh",
         afterPath |-> FALSE,
         askedPath |-> <<>>,
         returned |-> TRUE,
         runs |-> 0,
         stepsSinceStart |-> 0,
         lastRunSteps |-> 0,
         stepsInFrame |-> 0]

\* a destroy that only empties the container
destroyKeepsRunning(g) ==
    [g EXCEPT !.destroyed = TRUE]

\* NetworkGraph.destroy
destroyInstance(g) ==
    [g EXCEPT !.simulationRunning = FALSE, !.destroyed = TRUE]

\* the tick callbacks of instance i waiting for the next frame
Pending(i) == Cardinality({k \in 1..Len(raf) : raf[k].inst = i})

Destroyed(i) == [destroyInstance(insts[i]) EXCEPT !.pendingAtDestroy = Pending(i)]

\* One call of a tick closure.  Gives the object, and the callback the tick
\* passes to requestAnimationFrame (none when it returns early).
tick(g, cb) ==
    IF ~g.simulationRunning \/ cb.steps >= maxSteps
    THEN [g |-> [g EXCEPT !.simulationRunning = FALSE], next |-> <<>>]
    ELSE LET steps == cb.steps + 1
         IN  [g |-> [g EXCEPT
                        !.nodes = applyForces(g.nodes, g.edges, g.draggedNode,
                                              alphaOf(steps)),
                        !.stepsSinceStart = @ + 1,
                        !.stepsInFrame = @ + 1,
                        !.lastRunSteps = IF cb.run = g.runs THEN steps ELSE @],
              next |-> <<[cb EXCEPT !.steps = steps]>>]

\* the callbacks of one display frame, run in the order they were requested
RECURSIVE runFrame(_, _, _)
runFrame(queue, I, requested) ==
    IF queue = <<>> THEN [insts |-> I, raf |-> requested]
    ELSE LET cb == Head(queue)
             r == tick(I[cb.inst], cb)
         IN  runFrame(Tail(queue), [I EXCEPT ![cb.inst] = r.g],
                      requested \o r.next)

----------------------------------------------------------------------------
(* Path finder: findShortestPath.  The result is null or an array of ids;  *)
(* iterations counts the passes of the while loop.                         *)

null == [found |-> FALSE, path |-> <<>>, iterations |-> 0]

\* the ends of the edges that leave current, orientation respected
neighborsDirected(edges, current) ==
    LET At(e) == e.source = current
        at == SeqFilter(edges, At)
    IN  [k \in 1..Len(at) |-> at[k].target]

\* this.edges.filter(...).map(...): the other end of every edge at current,
\* in the order of this.edges
neighbors(edges, current) ==
    LET At(e) == e.source = current \/ e.target = current
        at == SeqFilter(edges, At)
    IN  [k \in 1..Len(at) |->
            IF at[k].source = current THEN at[k].target ELSE at[k].source]

\* the for loop over the neighbours of the last id of path
RECURSIVE visitNeighbors(_, _, _, _, _, _)
visitNeighbors(nbrs, k, path, endId, queue, visited) ==
    IF k > Len(nbrs)
    THEN [returned |-> FALSE, path |-> <<>>, queue |-> queue, visited |-> visited]
    ELSE IF nbrs[k] = endId
    THEN [returned |-> TRUE, path |-> Append(path, nbrs[k]), queue |-> queue,
          visited |-> visited]
    ELSE IF nbrs[k] \notin visited
    THEN visitNeighbors(nbrs, k + 1, path, endId,
                        Append(queue, Append(path, nbrs[k])),
                        visited \cup {nbrs[k]})
    ELSE visitNeighbors(nbrs, k + 1, path, endId, queue, visited)

\* the while loop
RECURSIVE search(_, _, _, _, _)
search(edges, endId, queue, visited, iterations) ==
    IF queue = <<>> THEN [null EXCEPT !.iterations = iterations]
    ELSE LET path == Head(queue)
             current == path[Len(path)]
             r == visitNeighbors(neighbors(edges, current), 1, path, endId,
                                 Tail(queue), visited)
         IN  IF r.returned
             THEN [found |-> TRUE, path |-> r.path, iterations |-> iterations + 1]
             ELSE search(edges, endId, r.queue, r.visited, iterations + 1)

\* the search without the shortcut for equal ids
searchOnly(edges, startId, endId) ==
    search(edges, endId, <<(<<startId>>)>>, {startId}, 0)

findShortestPath(edges, startId, endId) ==
    IF startId = endId
    THEN [found |-> TRUE, path |-> <<startId>>, iterations |-> 0]
    ELSE search(edges, endId, <<(<<startId>>)>>, {startId}, 0)

----------------------------------------------------------------------------
(* Highlight operations of NetworkGraph *)

\* querySelector: the index of the first element of a list that passes
FirstIndex(s, Test(_)) ==
    IF \E k \in 1..Len(s) : Test(s[k])
    THEN CHOOSE k \in 1..Len(s) : Test(s[k]) /\ \A j \in 1..(k - 1) : ~Test(s[j])
    ELSE 0

\* clearPathHighlight.  No line carries a data-strength attribute, so
\* line.dataset.strength || 'Medium' is 'Medium'.
clearedEdge(line) ==
    IF line.pathHighlight
    THEN [line EXCEPT !.pathHighlight = FALSE,
                      !.stroke = getEdgeColor("Medium"),
                      !.strokeWidth = getEdgeWidth("Medium"),
                      !.animates = 0]
    ELSE line

clearedNode(nodes, group) ==
    LET idx == FindNode(nodes, group.nodeId)
    IN  IF idx = 0 THEN group
        ELSE [group EXCEPT
                !.circles[1] = [@ EXCEPT
                    !.stroke = IF nodes[idx].isCenter THEN "#1e40af" ELSE "#fff",
                    !.strokeWidth = IF nodes[idx].isCenter THEN 4 ELSE 2,
                    !.filter = "none"]]

clearPathHighlight(g) ==
    [g EXCEPT
        !.domEdges = [k \in 1..Len(g.domEdges) |-> clearedEdge(g.domEdges[k])],
        !.domNodes = [k \in 1..Len(g.domNodes) |-> clearedNode(g.nodes, g.domNodes[k])]]

\* highlightPath: the loop over the consecutive ids of path, from the k-th
RECURSIVE highlightEdges(_, _, _, _)
highlightEdges(domEdges, edges, path, k) ==
    IF k >= Len(path) THEN domEdges
    ELSE LET Joins(e) == \/ e.source = path[k] /\ e.target = path[k + 1]
                         \/ e.source = path[k + 1] /\ e.target = path[k]
             edge == FirstIndex(edges, Joins)
             HasId(grp) == grp.edgeId = edges[edge].id
             grp == IF edge = 0 THEN 0 ELSE FirstIndex(domEdges, HasId)
         IN  IF grp = 0 THEN highlightEdges(domEdges, edges, path, k + 1)
             ELSE highlightEdges(
                    [domEdges EXCEPT ![grp] = [@ EXCEPT !.pathHighlight = TRUE,
                                                        !.stroke = "#3b82f6",
                                                        !.strokeWidth = 4,
                                                        !.animates = @ + 1]],
                    edges, path, k + 1)

\* highlightPath: path.forEach over the node ids, from the k-th
RECURSIVE highlightNodes(_, _, _)
highlightNodes(domNodes, path, k) ==
    IF k > Len(path) THEN domNodes
    ELSE LET HasId(grp) == grp.nodeId = path[k]
             grp == FirstIndex(domNodes, HasId)
         IN  IF grp = 0 THEN highlightNodes(domNodes, path, k + 1)
             ELSE highlightNodes(
                    [domNodes EXCEPT ![grp].circles[1] =
                        [@ EXCEPT !.stroke = "#3b82f6", !.strokeWidth = 4,
                                  !.filter = "glow"]],
                    path, k + 1)

highlightPath(g, sourceNodeId, targetNodeId) ==
    LET r == findShortestPath(g.edges, sourceNodeId, targetNodeId)
        c == clearPathHighlight(g)
    IN  IF ~r.found \/ Len(r.path) < 2 THEN g
        ELSE [c EXCEPT
                !.domEdges = highlightEdges(c.domEdges, c.edges, r.path, 1),
                !.domNodes = highlightNodes(c.domNodes, r.path, 1)]

\* highlightNode
highlightNode(g, nodeId) ==
    LET idx == FindNode(g.nodes, nodeId)
    IN  IF idx = 0 THEN g
        ELSE [g EXCEPT
                !.selectedNode = [gen |-> g.nodes[idx].gen, idx |-> idx],
                !.domNodes = [k \in 1..Len(g.domNodes) |->
                    [g.domNodes[k] EXCEPT !.circles[1].filter =
                        IF g.domNodes[k].nodeId = nodeId THEN "glow" ELSE "shadow"]]]

\* focusOnNode
focusOnNode(g, nodeId) ==
    LET idx == FindNode(g.nodes, nodeId)
        moved == [g EXCEPT
                    !.viewBox.x = g.nodes[idx].x - Quot(g.viewBox.width, 2),
                    !.viewBox.y = g.nodes[idx].y - Quot(g.viewBox.height, 2)]
    IN  IF idx = 0 THEN g ELSE highlightNode(moved, nodeId)

----------------------------------------------------------------------------
(* The environment: when an event may arrive *)

Registered(el) == graphs[el] # 0

EventOK == budget > 0 /\ (raf = <<>> \/ clock <= EventWindow)

PathIdle == UNCHANGED <<pathIn, pathOut, tv, cyto, geo>>

\* an event that every instance handles, whatever the element it is for
HandleShared(el, h) ==
    /\ EventOK
    /\ Registered(el)
    /\ insts' = [i \in DOMAIN insts |-> h]
    /\ budget' = budget - 1
    /\ UNCHANGED <<graphs, raf, clock>>
    /\ PathIdle

\* an event handled by the instance registered for el, which it turns into h
Handle(el, h) ==
    /\ EventOK
    /\ Registered(el)
    /\ insts' = [insts EXCEPT ![graphs[el]] = h]
    /\ budget' = budget - 1
    /\ UNCHANGED <<graphs, raf, clock>>
    /\ PathIdle

----------------------------------------------------------------------------
(* Exported functions and listeners *)

\* render(elementId, graphData, dotNetHelper), the container being found
Render(el, data, rnd) ==
    LET i == Len(insts) + 1
        started == startSimulation(constructed(data, rnd), i)
        old == IF Registered(el)
               THEN [insts EXCEPT ![graphs[el]] = Destroyed(graphs[el])]
               ELSE insts
    IN  /\ EventOK
        /\ Len(insts) < MaxInst
        /\ insts' = Append(old, started.g)
        /\ raf' = Append(raf, started.cb)
        /\ graphs' = [graphs EXCEPT ![el] = i]
        /\ clock' = 0
        /\ budget' = budget - 1
        /\ PathIdle

\* destroy(elementId)
Destroy(el) ==
    /\ EventOK
    /\ Registered(el)
    /\ insts' = [insts EXCEPT ![graphs[el]] = Destroyed(graphs[el])]
    /\ graphs' = [graphs EXCEPT ![el] = 0]
    /\ budget' = budget - 1
    /\ UNCHANGED <<raf, clock>>
    /\ PathIdle

\* resetLayout(elementId), and the reset button
resetLayout(g, rnd) ==
    LET nodes == parseNodes(g.data, rnd, g.gen + 1)
        edges == parseEdges(g.data)
    IN  [g EXCEPT !.zoom = 10,
                  !.viewBox = defaultViewBox,
                  !.nodes = nodes,
                  !.edges = edges,
                  !.gen = @ + 1,
                  !.domEdges = renderEdges(nodes, edges),
                  !.domNodes = renderNodes(nodes),
                  !.hlPhase = "fresh",
                  !.afterPath = FALSE,
                  !.askedPath = <<>>]

ResetLayout(el, rnd) ==
    LET i == graphs[el]
        started == startSimulation(resetLayout(insts[i], rnd), i)
    IN  /\ EventOK
        /\ Registered(el)
        /\ insts[i].runs < MaxRuns
        /\ insts' = [insts EXCEPT ![i] = [started.g EXCEPT !.returned = TRUE]]
        /\ raf' = Append(raf, started.cb)
        /\ clock' = 0
        /\ budget' = budget - 1
        /\ UNCHANGED graphs
        /\ PathIdle

\* zoomIn and zoomOut: exported, the buttons, and the wheel listener
zoomed(g, zoom) ==
    [g EXCEPT !.zoom = zoom,
              !.viewBox = [x |-> -Quot(1000 * zoom * F, 2 * 10),
                           y |-> -Quot(800 * zoom * F, 2 * 10),
                           width |-> Quot(1000 * zoom * F, 10),
                           height |-> Quot(800 * zoom * F, 10)]]

\* zoomIn without the lower clamp of line 560
zoomInUnclamped(g) == zoomed(g, g.zoom - 1)

zoomIn(g) == zoomed(g, Max(5, g.zoom - 1))

zoomOut(g) == zoomed(g, Min(20, g.zoom + 1))

ZoomIn(el) == Handle(el, [zoomIn(insts[graphs[el]]) EXCEPT !.returned = TRUE])

ZoomOut(el) == Handle(el, [zoomOut(insts[graphs[el]]) EXCEPT !.returned = TRUE])

\* nodesGroup 'mousedown' on the k-th node group; stopPropagation keeps the
\* event from the svg listener
mousedownNode(g, k) ==
    LET idx == FindNode(g.nodes, g.domNodes[k].nodeId)
        node == IF idx = 0 THEN NoNode ELSE [gen |-> g.nodes[idx].gen, idx |-> idx]
    IN  [g EXCEPT !.draggedNode = node, !.selectedNode = node]

MouseDownNode(el, k) ==
    /\ Registered(el)
    /\ k \in 1..Len(insts[graphs[el]].domNodes)
    /\ Handle(el, mousedownNode(insts[graphs[el]], k))

\* svg 'mousedown' outside every node group
mousedownSvg(g, p) ==
    IF g.draggedNode = NoNode
    THEN [g EXCEPT !.isPanning = TRUE, !.panStart = p]
    ELSE g

MouseDownSvg(el, p) == Handle(el, mousedownSvg(insts[graphs[el]], p))

\* svg 'mousemove'
mousemove(g, p) ==
    IF g.draggedNode # NoNode
    THEN LET svgX == Quot((p.x - SvgRect.left) * g.viewBox.width, SvgRect.width)
                     + g.viewBox.x
             svgY == Quot((p.y - SvgRect.top) * g.viewBox.height, SvgRect.height)
                     + g.viewBox.y
         IN  IF g.draggedNode.gen = g.gen
             THEN [g EXCEPT !.nodes[g.draggedNode.idx].x = svgX,
                            !.nodes[g.draggedNode.idx].y = svgY]
             ELSE g   \* the object written is no node of this.nodes any more
    ELSE IF g.isPanning
    THEN LET dx == Quot((p.x - g.panStart.x) * g.zoom * F, 10)
             dy == Quot((p.y - g.panStart.y) * g.zoom * F, 10)
         IN  [g EXCEPT !.viewBox.x = @ - dx,
                       !.viewBox.y = @ - dy,
                       !.panStart = p]
    ELSE g

MouseMove(el, p) == Handle(el, mousemove(insts[graphs[el]], p))

\* svg 'mouseup' and 'mouseleave'
endDrag(g) == [g EXCEPT !.draggedNode = NoNode, !.isPanning = FALSE]

MouseUp(el) == Handle(el, endDrag(insts[graphs[el]]))

MouseLeave(el) == Handle(el, endDrag(insts[graphs[el]]))

\* highlightPath(elementId, sourceNodeId, targetNodeId)
HighlightPath(el, a, b) ==
    LET g == insts[graphs[el]]
        r == findShortestPath(g.edges, a, b)
        shown == r.found /\ Len(r.path) >= 2
    IN  Handle(el, [highlightPath(g, a, b) EXCEPT
                      !.hlPhase = IF ~shown THEN @
                                  ELSE IF @ = "fresh" THEN "path" ELSE "mixed",
                      !.afterPath = TRUE,
                      !.askedPath = IF shown THEN r.path ELSE <<>>,
                      !.returned = shown])

\* clearPathHighlight(elementId)
ClearPathHighlight(el) ==
    Handle(el, [clearPathHighlight(insts[graphs[el]]) EXCEPT
                    !.hlPhase = IF @ = "path" THEN "roundtrip" ELSE "mixed",
                    !.afterPath = FALSE,
                    !.askedPath = <<>>,
                    !.returned = TRUE])

\* highlightNode(elementId, nodeId)
HighlightNode(el, id) ==
    Handle(el, [highlightNode(insts[graphs[el]], id) EXCEPT
                    !.hlPhase = "mixed", !.afterPath = FALSE, !.askedPath = <<>>,
                    !.returned = TRUE])

\* focusOnNode(elementId, nodeId)
FocusOnNode(el, id) ==
    Handle(el, [focusOnNode(insts[graphs[el]], id) EXCEPT
                    !.hlPhase = "mixed", !.afterPath = FALSE, !.askedPath = <<>>,
                    !.returned = TRUE])

\* one display frame: every callback requested so far runs once
Frame ==
    LET cleared == [i \in 1..Len(insts) |-> [insts[i] EXCEPT !.stepsInFrame = 0]]
        r == runFrame(raf, cleared, <<>>)
    IN  /\ raf # <<>>
        /\ insts' = r.insts
        /\ raf' = r.raf
        /\ clock' = IF clock <= EventWindow THEN clock + 1 ELSE clock
        /\ UNCHANGED <<graphs, budget>>
        /\ PathIdle

----------------------------------------------------------------------------
(* Specification of the engine: construction, simulation, pointer input *)

SimPayloads ==
    {[centerEntityId |-> "A",
      nodes |-> <<[id |-> "A", riskScore |-> 0], [id |-> "B", riskScore |-> 70]>>,
      relationships |-> <<[id |-> "e1", sourceEntityId |-> "A",
                           targetEntityId |-> "B", strength |-> "Strong"]>>]}

NoPathIn == [edges |-> <<>>, startId |-> "", endId |-> ""]

NoPathOut == [called |-> FALSE, result |-> null]

\* js/timeline-visualization.js before any call: an empty registry, and the
\* vis library not loaded
TimelineIds == {"timeline"}

NoTimelines == [timelines |-> [el \in TimelineIds |-> 0], objs |-> <<>>,
                vis |-> FALSE, budget |-> MaxTimelineEvents]

\* js/helper.js before any call: an empty registry `maps`
MapIds == {"map"}

NoMaps == [maps |-> [el \in MapIds |-> 0], objs |-> <<>>, budget |-> MaxMapEvents]

\* the Cytoscape graph module before any call: nothing loaded or loading, no
\* script element, an empty registry
NoCyto == [loaded |-> FALSE, loading |-> FALSE, tags |-> {}, ran |-> {},
           inflight |-> 0,
           graphs |-> [el \in ElementIds |-> 0], objs |-> <<>>,
           destroyed |-> [el \in ElementIds |-> FALSE],
           budget |-> MaxCytoEvents]

Init ==
    /\ graphs = [el \in ElementIds |-> 0]
    /\ insts = <<>>
    /\ raf = <<>>
    /\ clock = 0
    /\ budget = MaxEvents
    /\ pathIn = NoPathIn
    /\ pathOut = NoPathOut
    /\ tv = NoTimelines
    /\ cyto = NoCyto
    /\ geo = NoMaps

Next ==
    \/ \E el \in ElementIds, data \in SimPayloads :
          \E rnd \in RandomDraws(data) : Render(el, data, rnd)
    \/ \E el \in ElementIds : Destroy(el)
    \/ \E el \in ElementIds :
          /\ Registered(el)
          /\ \E rnd \in RandomDraws(insts[graphs[el]].data) : ResetLayout(el, rnd)
    \/ \E el \in ElementIds : ZoomIn(el)
    \/ \E el \in ElementIds : ZoomOut(el)
    \/ \E el \in ElementIds :
          /\ Registered(el)
          /\ \E k \in DOMAIN insts[graphs[el]].domNodes : MouseDownNode(el, k)
    \/ \E el \in ElementIds, p \in Pointers : MouseDownSvg(el, p)
    \/ \E el \in ElementIds, p \in Pointers : MouseMove(el, p)
    \/ \E el \in ElementIds : MouseUp(el)
    \/ \E el \in ElementIds : MouseLeave(el)
    \/ Frame

Spec == Init /\ [][Next]_vars

----------------------------------------------------------------------------
(* Specification of the highlight operations on a rendered graph *)

\* the exported getNodeCount and getEdgeCount
getNodeCount(el) == IF Registered(el) THEN Len(insts[graphs[el]].nodes) ELSE 0

getEdgeCount(el) == IF Registered(el) THEN Len(insts[graphs[el]].edges) ELSE 0

HighlightPayloads ==
    {[centerEntityId |-> "A",
      nodes |-> <<[id |-> "A", riskScore |-> 0], [id |-> "B", riskScore |-> 70],
                  [id |-> "C", riskScore |-> 10], [id |-> "D", riskScore |-> 0]>>,
      relationships |-> <<[id |-> "e1", sourceEntityId |-> "A",
                           targetEntityId |-> "B", strength |-> "Strong"],
                          [id |-> "e2", sourceEntityId |-> "B",
                           targetEntityId |-> "A", strength |-> "Weak"],
                          [id |-> "e3", sourceEntityId |-> "B",
                           targetEntityId |-> "C", strength |-> ""],
                          [id |-> "e4", sourceEntityId |-> "C",
                           targetEntityId |-> "Z", strength |-> "Weak"]>>]}

QueryIds == {"A", "C", "D", "Z"}

\* Math.random gives the same pair to every node of a payload
UniformDraws(data) == {[k \in 1..Len(data.nodes) |-> r] : r \in RandomPairs}

NextHighlight ==
    \/ \E el \in ElementIds, data \in HighlightPayloads :
          \E rnd \in UniformDraws(data) : Render(el, data, rnd)
    \/ \E el \in ElementIds, a \in QueryIds, b \in QueryIds : HighlightPath(el, a, b)
    \/ \E el \in ElementIds : ClearPathHighlight(el)
    \/ \E el \in ElementIds, id \in QueryIds : HighlightNode(el, id)
    \/ \E el \in ElementIds, id \in QueryIds : FocusOnNode(el, id)
    \/ Frame

SpecHighlight == Init /\ [][NextHighlight]_vars

----------------------------------------------------------------------------
(* Specification of findShortestPath as a function of the edge list *)

PathIds == {"A", "B", "C", "D"}

PathEdges == {[source |-> a, target |-> b] : a \in PathIds, b \in PathIds}

EdgeLists == UNION {[1..n -> PathEdges] : n \in 0..MaxPathEdges}

InitPath ==
    /\ graphs = [el \in ElementIds |-> 0]
    /\ insts = <<>>
    /\ raf = <<>>
    /\ clock = 0
    /\ budget = MaxEvents
    /\ pathIn \in [edges : EdgeLists, startId : PathIds, endId : PathIds]
    /\ pathOut = NoPathOut
    /\ tv = NoTimelines
    /\ cyto = NoCyto
    /\ geo = NoMaps

FindShortestPath ==
    /\ ~pathOut.called
    /\ pathOut' = [called |-> TRUE,
                   result |-> findShortestPath(pathIn.edges, pathIn.startId,
                                               pathIn.endId)]
    /\ UNCHANGED <<graphs, insts, raf, clock, budget, pathIn, tv, cyto, geo>>

NextPath == FindShortestPath

SpecPath == InitPath /\ [][NextPath]_vars

----------------------------------------------------------------------------
(* Properties of the force simulation, checked under Spec *)

Live(i) == ~insts[i].destroyed

\* C1: after the last call that starts the simulation (the constructor or
\* resetLayout) an instance performs at most maxSteps steps of applyForces.
C1_AtMostMaxSteps ==
    \A i \in DOMAIN insts : insts[i].stepsSinceStart <= maxSteps

\* C2: the step that releases a dragged node (mouseup or mouseleave) leaves
\* that node with velocity (0,0) at the position the drag gave it.
C2_ReleaseAtRest ==
    [][\A i \in DOMAIN insts :
          LET d == insts[i].draggedNode
          IN  (d # NoNode /\ d.gen = insts[i].gen /\ insts'[i].draggedNode = NoNode)
              => /\ insts'[i].nodes[d.idx].vx = 0
                 /\ insts'[i].nodes[d.idx].vy = 0
                 /\ insts'[i].nodes[d.idx].x = insts[i].nodes[d.idx].x
                 /\ insts'[i].nodes[d.idx].y = insts[i].nodes[d.idx].y]_vars

\* C3: once destroy has been called on an instance, no step of the program
\* runs applyForces on it: its nodes and its step count never change again.
C3_NoStepAfterDestroy ==
    [][\A i \in DOMAIN insts :
          insts[i].destroyed
          => /\ insts'[i].nodes = insts[i].nodes
             /\ insts'[i].stepsSinceStart = insts[i].stepsSinceStart
             /\ insts'[i].destroyed]_vars

\* a destroyed instance whose tick callback was waiting at the destroy and
\* has run since
C3_CallbackRanAfterDestroy ==
    \E i \in DOMAIN insts :
        /\ insts[i].destroyed
        /\ insts[i].pendingAtDestroy > 0
        /\ Pending(i) = 0

\* C4: an instance that was not destroyed is Idle only when the run started
\* by its last startSimulation has performed all maxSteps steps.
C4_IdleAfterFullRun ==
    \A i \in DOMAIN insts :
        (Live(i) /\ ~insts[i].simulationRunning)
        => insts[i].lastRunSteps = maxSteps

\* C5: a destroyed instance has no dragged node and is not panning.
C5_DestroyClearsDrag ==
    \A i \in DOMAIN insts :
        insts[i].destroyed
        => insts[i].draggedNode = NoNode /\ ~insts[i].isPanning

----------------------------------------------------------------------------
(* Properties of findShortestPath, checked under SpecPath *)

\* an edge of the list joins a and b, in either orientation
Joined(edges, a, b) ==
    \E k \in 1..Len(edges) :
        \/ edges[k].source = a /\ edges[k].target = b
        \/ edges[k].source = b /\ edges[k].target = a

Ends(edges) == {edges[k].source : k \in 1..Len(edges)}
               \cup {edges[k].target : k \in 1..Len(edges)}

\* the ids within n hops of a
RECURSIVE Within(_, _, _)
Within(edges, a, n) ==
    IF n = 0 THEN {a}
    ELSE LET near == Within(edges, a, n - 1)
         IN  near \cup {y \in Ends(edges) : \E x \in near : Joined(edges, x, y)}

Reachable(edges, a, b) == b \in Within(edges, a, Len(edges))

minHops(edges, a, b) ==
    CHOOSE n \in 0..Len(edges) :
        /\ b \in Within(edges, a, n)
        /\ \A m \in 0..(n - 1) : b \notin Within(edges, a, m)

\* C6: for distinct ids a and b joined by some undirected path,
\* findShortestPath(a, b) returns a sequence from a to b whose consecutive ids
\* are joined by an edge and whose hop count is the least possible.
C6_MinimumHopPath ==
    LET a == pathIn.startId
        b == pathIn.endId
        path == pathOut.result.path
    IN  (pathOut.called /\ a # b /\ Reachable(pathIn.edges, a, b))
        => /\ pathOut.result.found
           /\ path[1] = a
           /\ path[Len(path)] = b
           /\ \A k \in 1..(Len(path) - 1) : Joined(pathIn.edges, path[k], path[k + 1])
           /\ Len(path) - 1 = minHops(pathIn.edges, a, b)

\* a one-hop answer on a graph that also joins the two ids by a two-hop route
C6_ShorterOfTwoRoutes ==
    /\ pathOut.called
    /\ pathOut.result.found
    /\ Len(pathOut.result.path) = 2
    /\ \E x \in PathIds \ {pathIn.startId, pathIn.endId} :
          /\ Joined(pathIn.edges, pathIn.startId, x)
          /\ Joined(pathIn.edges, x, pathIn.endId)

\* C7: findShortestPath(a, a) is [a]; for distinct a and b the result is null
\* exactly when b is not reachable from a over the undirected edges; the while
\* loop runs at most once for every id of the graph.
C7_NullIffUnreachable ==
    LET a == pathIn.startId
        b == pathIn.endId
    IN  pathOut.called
        => /\ a = b => pathOut.result.found /\ pathOut.result.path = <<a>>
           /\ a # b => (pathOut.result.found <=> Reachable(pathIn.edges, a, b))
           /\ ~pathOut.result.found => pathOut.result.path = <<>>
           /\ pathOut.result.iterations
                <= Cardinality(Ends(pathIn.edges) \cup {a})

\* no path from a to b on a graph of three edges, found after three passes
\* of the while loop
C7_NullOnCyclicGraph ==
    /\ pathOut.called
    /\ pathIn.startId # pathIn.endId
    /\ ~pathOut.result.found
    /\ pathOut.result.iterations = 3
    /\ Len(pathIn.edges) = 3

----------------------------------------------------------------------------
(* Properties of the highlight operations, checked under SpecHighlight *)

\* the node groups and edge lines that carry the highlight attributes
HighlightedNodes(g) ==
    {g.domNodes[k].nodeId : k \in {j \in 1..Len(g.domNodes) :
        \/ g.domNodes[j].circles[1].stroke = "#3b82f6"
        \/ g.domNodes[j].circles[1].filter = "glow"}}

HighlightedEdges(g) ==
    {g.domEdges[k].edgeId : k \in {j \in 1..Len(g.domEdges) :
        g.domEdges[j].pathHighlight \/ g.domEdges[j].stroke = "#3b82f6"}}

\* the drawn nodes of a path, and the drawn edges that join consecutive ids
OnPathNodes(g, path) ==
    {path[k] : k \in {j \in 1..Len(path) : FindNode(g.nodes, path[j]) # 0}}

OnPathEdges(g, path) ==
    {g.domEdges[k].edgeId : k \in {j \in 1..Len(g.domEdges) :
        \E e \in 1..Len(g.edges), n \in 1..(Len(path) - 1) :
            /\ g.edges[e].id = g.domEdges[j].edgeId
            /\ \/ g.edges[e].source = path[n] /\ g.edges[e].target = path[n + 1]
               \/ g.edges[e].source = path[n + 1] /\ g.edges[e].target = path[n]}}

\* C8: highlightPath followed immediately by clearPathHighlight leaves every
\* edge line and node circle with the attributes the renderer gave it.
C8_HighlightRoundTrip ==
    \A i \in DOMAIN insts :
        insts[i].hlPhase = "roundtrip"
        => /\ insts[i].domEdges = renderEdges(insts[i].nodes, insts[i].edges)
           /\ insts[i].domNodes = renderNodes(insts[i].nodes)

\* C9: after a call of highlightPath the highlighted nodes are the nodes of
\* the path asked for and the highlighted edges are the edges that join its
\* consecutive nodes, whatever highlight calls came before.
C9_HighlightReplaces ==
    \A i \in DOMAIN insts :
        insts[i].afterPath
        => /\ HighlightedNodes(insts[i]) = OnPathNodes(insts[i], insts[i].askedPath)
           /\ HighlightedEdges(insts[i]) = OnPathEdges(insts[i], insts[i].askedPath)

\* C10: every edge held by an instance, and so counted by getEdgeCount, has
\* both its ends among the ids of the instance's nodes.
C10_EdgesReferToNodes ==
    \A i \in DOMAIN insts : \A k \in 1..Len(insts[i].edges) :
        /\ FindNode(insts[i].nodes, insts[i].edges[k].source) # 0
        /\ FindNode(insts[i].nodes, insts[i].edges[k].target) # 0

----------------------------------------------------------------------------
(* Properties of the exported operations *)

\* C11: highlightNode or focusOnNode with an id that no node of the graph
\* has returns a failure result and leaves the viewport, the selected node,
\* the nodes and the running simulation as they were.
C11_UnknownIdReported ==
    [][\A el \in ElementIds, id \in QueryIds :
          (/\ Registered(el)
           /\ FindNode(insts[graphs[el]].nodes, id) = 0
           /\ (HighlightNode(el, id) \/ FocusOnNode(el, id)))
          => /\ ~insts'[graphs[el]].returned
             /\ insts'[graphs[el]].viewBox = insts[graphs[el]].viewBox
             /\ insts'[graphs[el]].selectedNode = insts[graphs[el]].selectedNode
             /\ insts'[graphs[el]].nodes = insts[graphs[el]].nodes
             /\ insts'[graphs[el]].simulationRunning
                  = insts[graphs[el]].simulationRunning]_vars

----------------------------------------------------------------------------
(* Specification of the initial placement: render and resetLayout on       *)
(* payloads of one, two and four nodes, with the centre entity first,      *)
(* later or not configured                                                 *)

Plain(id) == [id |-> id, riskScore |-> 0]

Rel(id, a, b) == [id |-> id, sourceEntityId |-> a, targetEntityId |-> b,
                  strength |-> ""]

LayoutPayloads ==
    {[centerEntityId |-> "A", nodes |-> <<Plain("A")>>, relationships |-> <<>>],
     [centerEntityId |-> "B", nodes |-> <<Plain("A"), Plain("B")>>,
      relationships |-> <<Rel("e1", "A", "B")>>],
     [centerEntityId |-> "", nodes |-> <<Plain("A"), Plain("B")>>,
      relationships |-> <<Rel("e1", "A", "B")>>],
     [centerEntityId |-> "C",
      nodes |-> <<Plain("A"), Plain("B"), Plain("C"), Plain("D")>>,
      relationships |-> <<Rel("e1", "C", "A"), Rel("e2", "C", "D")>>]}

NextLayout ==
    \/ \E el \in ElementIds, data \in LayoutPayloads :
          \E rnd \in UniformDraws(data) : Render(el, data, rnd)
    \/ \E el \in ElementIds :
          /\ Registered(el)
          /\ \E rnd \in UniformDraws(insts[graphs[el]].data) : ResetLayout(el, rnd)
    \/ Frame

SpecLayout == Init /\ [][NextLayout]_vars

\* the nodes of g at the origin, and the nodes with the centre flag
AtOrigin(g) == {k \in 1..Len(g.nodes) : g.nodes[k].x = 0 /\ g.nodes[k].y = 0}

Flagged(g) == {k \in 1..Len(g.nodes) : g.nodes[k].isCenter}

Placed(g) ==
    LET anchors == {k \in 1..Len(g.data.nodes) :
                        g.data.nodes[k].id = g.data.centerEntityId}
    IN  /\ Flagged(g) = anchors
        /\ AtOrigin(g) = anchors
        /\ Cardinality(anchors) <= 1

\* C12: right after the constructor and after every resetLayout the node
\* whose id is the centre entity id, and no other node, is at the origin and
\* has the centre flag; with no such node, no node is at the origin or
\* flagged.
C12_OneAnchorAtOrigin ==
    [][\A i \in DOMAIN insts' :
          (i \notin DOMAIN insts \/ insts'[i].gen # insts[i].gen)
          => Placed(insts'[i])]_vars

\* a four-node graph just laid out again, its third node the centre
C12_ResetWithLaterAnchor ==
    \E i \in DOMAIN insts :
        /\ insts[i].gen = 2
        /\ insts[i].stepsSinceStart = 0
        /\ Len(insts[i].nodes) = 4
        /\ Flagged(insts[i]) = {3}
        /\ AtOrigin(insts[i]) = {3}

----------------------------------------------------------------------------
(* Specification of the viewport: zoom, pan, focusOnNode and resetLayout   *)
(* on the first graph rendered for an element, all arriving before the     *)
(* first display frame                                                     *)

ViewPayloads == SimPayloads

ViewIds == {"A", "B", "Z"}

InitViewport ==
    /\ graphs = [el \in ElementIds |-> 0]
    /\ insts = <<>>
    /\ raf = <<>>
    /\ clock = 0
    /\ budget = MaxViewEvents
    /\ pathIn = NoPathIn
    /\ pathOut = NoPathOut
    /\ tv = NoTimelines
    /\ cyto = NoCyto
    /\ geo = NoMaps

NextViewport ==
    \/ \E el \in ElementIds, data \in ViewPayloads :
          \E rnd \in UniformDraws(data) : ~Registered(el) /\ Render(el, data, rnd)
    \/ \E el \in ElementIds :
          /\ Registered(el)
          /\ \E rnd \in UniformDraws(insts[graphs[el]].data) : ResetLayout(el, rnd)
    \/ \E el \in ElementIds : ZoomIn(el)
    \/ \E el \in ElementIds : ZoomOut(el)
    \/ \E el \in ElementIds, p \in Pointers : MouseDownSvg(el, p)
    \/ \E el \in ElementIds, p \in Pointers : MouseMove(el, p)
    \/ \E el \in ElementIds : MouseUp(el)
    \/ \E el \in ElementIds, id \in ViewIds : FocusOnNode(el, id)

SpecViewport == InitViewport /\ [][NextViewport]_vars

\* the model-space point at the centre of the viewport
Centre(g) == [x |-> g.viewBox.x + Quot(g.viewBox.width, 2),
              y |-> g.viewBox.y + Quot(g.viewBox.height, 2)]

\* C13: zoomIn and zoomOut keep the model-space point at the centre of the
\* viewport where it was.
C13_ZoomKeepsCentre ==
    [][\A el \in ElementIds :
          (Registered(el) /\ (ZoomIn(el) \/ ZoomOut(el)))
          => Centre(insts'[graphs[el]]) = Centre(insts[graphs[el]])]_vars

----------------------------------------------------------------------------
(* Specification of two containers, each with its own graph *)

BothIds == {"graph", "other"}

InitBoth ==
    /\ graphs = [el \in BothIds |-> 0]
    /\ insts = <<>>
    /\ raf = <<>>
    /\ clock = 0
    /\ budget = MaxEvents
    /\ pathIn = NoPathIn
    /\ pathOut = NoPathOut
    /\ tv = NoTimelines
    /\ cyto = NoCyto
    /\ geo = NoMaps

\* the exported functions and pointer events for the container el
EventOn(el) ==
    \/ \E data \in SimPayloads : \E rnd \in UniformDraws(data) : Render(el, data, rnd)
    \/ Destroy(el)
    \/ /\ Registered(el)
       /\ \E rnd \in UniformDraws(insts[graphs[el]].data) : ResetLayout(el, rnd)
    \/ ZoomIn(el)
    \/ ZoomOut(el)
    \/ /\ Registered(el)
       /\ \E k \in DOMAIN insts[graphs[el]].domNodes : MouseDownNode(el, k)
    \/ \E p \in Pointers : MouseDownSvg(el, p)
    \/ \E p \in Pointers : MouseMove(el, p)
    \/ MouseUp(el)
    \/ FocusOnNode(el, "B")

NextBoth ==
    \/ \E el \in BothIds : EventOn(el)
    \/ Frame

SpecBoth == InitBoth /\ [][NextBoth]_vars

\* C14: an exported function or pointer event for one element id leaves the
\* registration and the whole instance of every other element id unchanged.
C14_InstancesIsolated ==
    [][\A el \in BothIds :
          EventOn(el)
          => \A o \in BothIds \ {el} :
                /\ graphs'[o] = graphs[o]
                /\ Registered(o) => insts'[graphs[o]] = insts[graphs[o]]]_vars

\* two registered graphs with the same nodes, one of them zoomed
C14_TwoGraphsApart ==
    /\ \A el \in BothIds : Registered(el)
    /\ \E el \in BothIds, o \in BothIds :
          /\ insts[graphs[el]].zoom # insts[graphs[o]].zoom
          /\ insts[graphs[el]].nodes = insts[graphs[o]].nodes

----------------------------------------------------------------------------
(* js/timeline-visualization.js: class TimelineVisualization and its       *)
(* exported functions.  A date argument is null or a day with an hour of   *)
(* the day; new Date(...) turns it into a time value, counted in hours.    *)
(* A group id is a string, "" standing for a missing group.                *)

NullDate == [isNull |-> TRUE, day |-> 0, hour |-> 0]

DateOf(d, h) == [isNull |-> FALSE, day |-> d, hour |-> h]

newDate(input) == input.day * 24 + input.hour

NullTime == [isNull |-> TRUE, time |-> 0]

NullGroups == [isNull |-> TRUE, ids |-> <<>>]

GroupsOf(ids) == [isNull |-> FALSE, ids |-> ids]

NullRange == [isNull |-> TRUE, start |-> NullTime, end |-> NullTime]

NullTimeline == [isNull |-> TRUE, itemsData |-> <<>>]

\* the item handed to the DataSet: the custom `type` field is renamed
visItem(item) ==
    [id |-> item.id, start |-> item.start, group |-> item.group,
     itemType |-> item.type]

processedItems(items) == [k \in 1..Len(items) |-> visItem(items[k])]

\* TimelineVisualization.createTimeline
createTimeline(o) ==
    [o EXCEPT !.timeline = [isNull |-> FALSE,
                            itemsData |-> processedItems(o.items)],
              !.visAlive = @ + 1]

\* constructor and init, vis telling whether the library is defined; loading
\* says that loadVisLibrary has not settled yet.  added holds the items
\* given to addItem and not removed since, removed the ids given to
\* removeItem and not added since.  visAlive counts the
\* vis.Timeline objects made for the object and not destroyed; askedGroups,
\* askedStart and askedEnd are the arguments of the last filter calls the
\* object acted on, lastCall the last exported function that reached it and
\* wasFiltered whether items were hidden before it.
TimelineVisualization(items, vis) ==
    LET o == [items |-> items,
              allItems |-> items,
              timeline |-> NullTimeline,
              activeGroupFilters |-> <<>>,
              activeDateRange |-> NullRange,
              loading |-> ~vis,
              destroyCalled |-> FALSE,
              visAlive |-> 0,
              askedGroups |-> NullGroups,
              askedStart |-> NullDate,
              askedEnd |-> NullDate,
              lastCall |-> "render",
              wasFiltered |-> FALSE,
              added |-> {},
              removed |-> {}]
    IN  IF vis THEN createTimeline(o) ELSE o

\* applyFilters with the date filter applied to all the items
applyFiltersDateOnly(o) ==
    LET InGroups(item) ==
            /\ item.group # ""
            /\ \E k \in 1..Len(o.activeGroupFilters) :
                  o.activeGroupFilters[k] = item.group
        InRange(item) ==
            LET itemDate == newDate(item.start)
                start == o.activeDateRange.start
                end == o.activeDateRange.end
            IN  IF ~start.isNull /\ ~end.isNull
                THEN itemDate >= start.time /\ itemDate <= end.time
                ELSE IF ~start.isNull THEN itemDate >= start.time
                ELSE IF ~end.isNull THEN itemDate <= end.time
                ELSE TRUE
        all == processedItems(o.allItems)
        byGroup == IF Len(o.activeGroupFilters) > 0
                   THEN SeqFilter(all, InGroups) ELSE all
        byDate == IF ~o.activeDateRange.isNull
                  THEN SeqFilter(all, InRange) ELSE byGroup
    IN  IF o.timeline.isNull THEN o
        ELSE [o EXCEPT !.timeline.itemsData = byDate]

\* TimelineVisualization.applyFilters
applyFilters(o) ==
    LET InGroups(item) ==
            /\ item.group # ""
            /\ \E k \in 1..Len(o.activeGroupFilters) :
                  o.activeGroupFilters[k] = item.group
        InRange(item) ==
            LET itemDate == newDate(item.start)
                start == o.activeDateRange.start
                end == o.activeDateRange.end
            IN  IF ~start.isNull /\ ~end.isNull
                THEN itemDate >= start.time /\ itemDate <= end.time
                ELSE IF ~start.isNull THEN itemDate >= start.time
                ELSE IF ~end.isNull THEN itemDate <= end.time
                ELSE TRUE
        all == processedItems(o.allItems)
        byGroup == IF Len(o.activeGroupFilters) > 0
                   THEN SeqFilter(all, InGroups) ELSE all
        byDate == IF ~o.activeDateRange.isNull
                  THEN SeqFilter(byGroup, InRange) ELSE byGroup
    IN  IF o.timeline.isNull THEN o
        ELSE [o EXCEPT !.timeline.itemsData = byDate]

\* TimelineVisualization.filterByGroups
filterByGroups(o, groupIds) ==
    IF o.timeline.isNull THEN o
    ELSE applyFilters([o EXCEPT !.activeGroupFilters =
                          IF ~groupIds.isNull /\ Len(groupIds.ids) > 0
                          THEN groupIds.ids ELSE <<>>])

\* TimelineVisualization.filterByDateRange
filterByDateRange(o, startDate, endDate) ==
    LET timeOf(d) == IF d.isNull THEN NullTime
                     ELSE [isNull |-> FALSE, time |-> newDate(d)]
    IN  IF o.timeline.isNull THEN o
        ELSE applyFilters([o EXCEPT !.activeDateRange =
                IF ~startDate.isNull \/ ~endDate.isNull
                THEN [isNull |-> FALSE, start |-> timeOf(startDate),
                      end |-> timeOf(endDate)]
                ELSE NullRange])

\* clearFilters that leaves the date range as it is
clearGroupFilterOnly(o) ==
    applyFilters([o EXCEPT !.activeGroupFilters = <<>>])

\* TimelineVisualization.clearFilters
clearFilters(o) ==
    applyFilters([o EXCEPT !.activeGroupFilters = <<>>,
                           !.activeDateRange = NullRange])

\* TimelineVisualization.addItem: dataset.add(item), which throws when the
\* dataset already holds an item with that id
addItem(o, item) ==
    IF o.timeline.isNull THEN o
    ELSE IF \E k \in 1..Len(o.timeline.itemsData) :
               o.timeline.itemsData[k].id = item.id
    THEN o
    ELSE [o EXCEPT !.timeline.itemsData = Append(@, item),
                   !.added = @ \cup {item},
                   !.removed = @ \ {item.id}]

\* TimelineVisualization.removeItem: dataset.remove(itemId)
removeItem(o, itemId) ==
    LET Others(it) == it.id # itemId
    IN  IF o.timeline.isNull THEN o
        ELSE [o EXCEPT !.timeline.itemsData = SeqFilter(@, Others),
                       !.added = {it \in @ : it.id # itemId},
                       !.removed = @ \cup {itemId}]

\* TimelineVisualization.getFilterState
getFilterState(o) ==
    [groupFilters |-> o.activeGroupFilters, dateRange |-> o.activeDateRange]

\* TimelineVisualization.destroy
destroyTimeline(o) ==
    IF o.timeline.isNull THEN [o EXCEPT !.destroyCalled = TRUE]
    ELSE [o EXCEPT !.timeline = NullTimeline, !.visAlive = @ - 1,
                   !.destroyCalled = TRUE]

\* the exported functions reach an object through timelines.get(elementId)
TvHas(el) == tv.timelines[el] # 0

EngineIdle ==
    UNCHANGED <<graphs, insts, raf, clock, budget, pathIn, pathOut, cyto, geo>>

\* an exported function for el that turns the registered object into o
TvCall(el, o) ==
    /\ tv.budget > 0
    /\ TvHas(el)
    /\ tv' = [tv EXCEPT !.objs[tv.timelines[el]] = o, !.budget = @ - 1]
    /\ EngineIdle

\* render(elementId, items, options, dotNetHelper, groups), the container
\* being found
TvRender(el, items) ==
    LET old == IF TvHas(el)
               THEN [tv.objs EXCEPT ![tv.timelines[el]] = destroyTimeline(@)]
               ELSE tv.objs
    IN  /\ tv.budget > 0
        /\ tv' = [tv EXCEPT
                    !.objs = Append(old, TimelineVisualization(items, tv.vis)),
                    !.timelines[el] = Len(tv.objs) + 1,
                    !.budget = @ - 1]
        /\ EngineIdle

\* destroy(elementId)
TvDestroy(el) ==
    /\ tv.budget > 0
    /\ TvHas(el)
    /\ tv' = [tv EXCEPT !.objs[tv.timelines[el]] = destroyTimeline(@),
                        !.timelines[el] = 0,
                        !.budget = @ - 1]
    /\ EngineIdle

\* the script requested by the i-th object's loadVisLibrary has loaded: the
\* promise resolves and its then-callback creates the timeline
TvScriptLoaded(i) ==
    /\ i \in 1..Len(tv.objs)
    /\ tv.objs[i].loading
    /\ tv' = [tv EXCEPT !.objs[i] = createTimeline([@ EXCEPT !.loading = FALSE]),
                        !.vis = TRUE]
    /\ EngineIdle

\* the script failed to load: the promise rejects, nothing is created
TvScriptFailed(i) ==
    /\ i \in 1..Len(tv.objs)
    /\ tv.objs[i].loading
    /\ tv' = [tv EXCEPT !.objs[i].loading = FALSE]
    /\ EngineIdle

Hidden(o) == ~o.timeline.isNull /\ Len(o.timeline.itemsData) < Len(o.allItems)

\* filterByGroups(elementId, groupIds)
TvFilterByGroups(el, groupIds) ==
    LET o == tv.objs[tv.timelines[el]]
    IN  TvCall(el, [filterByGroups(o, groupIds) EXCEPT
                      !.askedGroups = IF o.timeline.isNull THEN @ ELSE groupIds,
                      !.lastCall = "filterByGroups",
                      !.wasFiltered = Hidden(o)])

\* filterByDateRange(elementId, startDate, endDate)
TvFilterByDateRange(el, startDate, endDate) ==
    LET o == tv.objs[tv.timelines[el]]
    IN  TvCall(el, [filterByDateRange(o, startDate, endDate) EXCEPT
                      !.askedStart = IF o.timeline.isNull THEN @ ELSE startDate,
                      !.askedEnd = IF o.timeline.isNull THEN @ ELSE endDate,
                      !.lastCall = "filterByDateRange",
                      !.wasFiltered = Hidden(o)])

\* clearFilters(elementId)
TvClearFilters(el) ==
    LET o == tv.objs[tv.timelines[el]]
    IN  TvCall(el, [clearFilters(o) EXCEPT
                      !.askedGroups = NullGroups,
                      !.askedStart = NullDate,
                      !.askedEnd = NullDate,
                      !.lastCall = "clearFilters",
                      !.wasFiltered = Hidden(o)])

\* addItem(elementId, item)
TvAddItem(el, item) ==
    LET o == tv.objs[tv.timelines[el]]
    IN  TvCall(el, [addItem(o, item) EXCEPT !.lastCall = "addItem"])

\* removeItem(elementId, itemId)
TvRemoveItem(el, itemId) ==
    LET o == tv.objs[tv.timelines[el]]
    IN  TvCall(el, [removeItem(o, itemId) EXCEPT !.lastCall = "removeItem"])

Item(id, group, day, hour) ==
    [id |-> id, group |-> group, start |-> DateOf(day, hour), type |-> "event"]

TimelinePayloads ==
    {<<Item("i1", "g1", 1, 0), Item("i2", "g2", 2, 12), Item("i3", "", 2, 0),
       Item("i4", "g1", 3, 0)>>}

GroupArgs == {NullGroups, GroupsOf(<<>>), GroupsOf(<<"g1">>),
              GroupsOf(<<"g2", "g1">>), GroupsOf(<<"g3">>)}

StartArgs == {NullDate, DateOf(2, 0)}

EndArgs == {NullDate, DateOf(2, 0), DateOf(2, 12)}

NextTimeline ==
    \/ \E el \in TimelineIds, items \in TimelinePayloads : TvRender(el, items)
    \/ \E el \in TimelineIds : TvDestroy(el)
    \/ \E i \in 1..Len(tv.objs) : TvScriptLoaded(i)
    \/ \E i \in 1..Len(tv.objs) : TvScriptFailed(i)
    \/ \E el \in TimelineIds, g \in GroupArgs : TvFilterByGroups(el, g)
    \/ \E el \in TimelineIds, a \in StartArgs, b \in EndArgs :
          TvFilterByDateRange(el, a, b)
    \/ \E el \in TimelineIds : TvClearFilters(el)

SpecTimeline == Init /\ [][NextTimeline]_vars

\* the timeline operations together with addItem and removeItem
NewItems == {Item("i5", "g1", 2, 0), Item("i1", "g1", 1, 0)}

RemovedIds == {"i1", "i5"}

EditGroupArgs == {GroupsOf(<<"g1">>)}

NextTimelineEdits ==
    \/ \E el \in TimelineIds, items \in TimelinePayloads : TvRender(el, items)
    \/ \E i \in 1..Len(tv.objs) : TvScriptLoaded(i)
    \/ \E el \in TimelineIds, g \in EditGroupArgs : TvFilterByGroups(el, g)
    \/ \E el \in TimelineIds, a \in StartArgs, b \in EndArgs :
          TvFilterByDateRange(el, a, b)
    \/ \E el \in TimelineIds : TvClearFilters(el)
    \/ \E el \in TimelineIds, item \in NewItems : TvAddItem(el, item)
    \/ \E el \in TimelineIds, id \in RemovedIds : TvRemoveItem(el, id)

SpecTimelineEdits == Init /\ [][NextTimelineEdits]_vars

----------------------------------------------------------------------------
(* Properties of the timeline filters, checked under SpecTimeline *)

VisibleIds(o) == {o.timeline.itemsData[k].id : k \in 1..Len(o.timeline.itemsData)}

PassesGroups(item, asked) ==
    \/ asked.isNull
    \/ asked.ids = <<>>
    \/ item.group \in {asked.ids[k] : k \in 1..Len(asked.ids)}

PassesRange(item, from, to) ==
    /\ from.isNull \/ newDate(item.start) >= newDate(from)
    /\ to.isNull \/ newDate(item.start) <= newDate(to)

\* C15: on a created timeline an item is visible exactly when its group is
\* in the group list last asked for (or that list is empty or null) and its
\* start lies in the date range last asked for, bounds included, a missing
\* bound being no bound.
C15_FiltersConjunctive ==
    \A i \in 1..Len(tv.objs) :
        LET o == tv.objs[i]
        IN  ~o.timeline.isNull
            => /\ VisibleIds(o) =
                    {o.allItems[k].id : k \in {j \in 1..Len(o.allItems) :
                        /\ PassesGroups(o.allItems[j], o.askedGroups)
                        /\ PassesRange(o.allItems[j], o.askedStart, o.askedEnd)}}
               /\ Len(o.timeline.itemsData) = Cardinality(VisibleIds(o))

\* both filters active, an item hidden by the group list alone, another by
\* the date range alone, and one visible
C15_BothFiltersBite ==
    \E i \in 1..Len(tv.objs) :
        LET o == tv.objs[i]
        IN  /\ ~o.timeline.isNull
            /\ Len(o.activeGroupFilters) > 0
            /\ ~o.activeDateRange.isNull
            /\ VisibleIds(o) # {}
            /\ \E j \in 1..Len(o.allItems) :
                  /\ ~PassesGroups(o.allItems[j], o.askedGroups)
                  /\ PassesRange(o.allItems[j], o.askedStart, o.askedEnd)
            /\ \E j \in 1..Len(o.allItems) :
                  /\ PassesGroups(o.allItems[j], o.askedGroups)
                  /\ ~PassesRange(o.allItems[j], o.askedStart, o.askedEnd)

\* C16: after clearFilters the timeline shows every item it was rendered
\* with, and getFilterState reports no group filter and no date range.
C16_ClearRestoresAll ==
    \A i \in 1..Len(tv.objs) :
        LET o == tv.objs[i]
        IN  (~o.timeline.isNull /\ o.lastCall = "clearFilters")
            => /\ o.timeline.itemsData = processedItems(o.items)
               /\ getFilterState(o) = [groupFilters |-> <<>>, dateRange |-> NullRange]

\* clearFilters called on a timeline that was hiding items
C16_ClearedAfterHiding ==
    \E i \in 1..Len(tv.objs) :
        /\ ~tv.objs[i].timeline.isNull
        /\ tv.objs[i].lastCall = "clearFilters"
        /\ tv.objs[i].wasFiltered

----------------------------------------------------------------------------
(* Further properties of the simulation and the pointer listeners, checked *)
(* under Spec                                                              *)

\* C17: in one display frame an instance runs at most one simulation step.
C17_OneStepPerFrame ==
    \A i \in DOMAIN insts : insts[i].stepsInFrame <= 1

\* C18: a display frame leaves the position and the velocity of a node that
\* is being dragged as they were.
C18_DraggedNodeUntouched ==
    [][Frame
       => \A i \in DOMAIN insts :
             LET d == insts[i].draggedNode
             IN  (d # NoNode /\ d.gen = insts[i].gen)
                 => insts'[i].nodes[d.idx] = insts[i].nodes[d.idx]]_vars

\* C19: in no reachable state is a node being dragged while the viewport is
\* panning.
C19_DragPanExclusive ==
    \A i \in DOMAIN insts :
        ~(insts[i].draggedNode # NoNode /\ insts[i].isPanning)

----------------------------------------------------------------------------
(* Properties of the zoom scalar, checked under SpecViewport *)

ZoomInRange(g) ==
    /\ g.zoom \in 5..20
    /\ g.viewBox.width = Quot(1000 * g.zoom * F, 10)
    /\ g.viewBox.height = Quot(800 * g.zoom * F, 10)

SameScale(g, h) ==
    /\ h.zoom = g.zoom
    /\ h.viewBox.width = g.viewBox.width
    /\ h.viewBox.height = g.viewBox.height

\* C20: the zoom scalar stays within [0.5, 2] (5..20 tenths), the viewport is
\* always 1000 x zoom wide and 800 x zoom high, and a pointer move (panning)
\* or focusOnNode changes none of zoom, width and height.
C20_ZoomClamped ==
    /\ [](\A i \in DOMAIN insts : ZoomInRange(insts[i]))
    /\ [][\A el \in ElementIds :
            (Registered(el)
             /\ \/ \E p \in Pointers : MouseMove(el, p)
                \/ \E id \in ViewIds : FocusOnNode(el, id))
            => SameScale(insts[graphs[el]], insts'[graphs[el]])]_vars

\* the viewport at the lower clamp, panned away from the origin
C20_PannedAtLowerClamp ==
    \E i \in DOMAIN insts :
        /\ insts[i].zoom = 5
        /\ insts[i].isPanning
        /\ insts[i].viewBox.x # -Quot(insts[i].viewBox.width, 2)
        /\ insts[i].viewBox.width = 500 * F

----------------------------------------------------------------------------
(* Specification of single simulation steps: a run under way on the two-   *)
(* node graph, with the nodes where drags can leave them (on each other,   *)
(* half a unit apart, in a corner of the bounded square) and with large    *)
(* velocities                                                              *)

MaxStepCalls == 2

ForcePositions ==
    {[x |-> 0, y |-> 0], [x |-> 5, y |-> 0],
     [x |-> maxDist * F, y |-> -(maxDist * F)], [x |-> -(ringSpacing * F), y |-> 0]}

ForceVelocities == {[vx |-> 0, vy |-> 0], [vx |-> 90000, vy |-> -90000]}

\* `steps` of the tick closure when the frame comes
ForceSteps == {0, 140}

InitForces ==
    /\ \E data \in SimPayloads, pa \in ForcePositions, pb \in ForcePositions,
          va \in ForceVelocities, vb \in ForceVelocities, d \in 0..2,
          steps \in ForceSteps :
          \E rnd \in UniformDraws(data) :
             LET started == startSimulation(constructed(data, rnd), 1)
             IN  /\ insts = <<[started.g EXCEPT
                                 !.nodes[1].x = pa.x, !.nodes[1].y = pa.y,
                                 !.nodes[1].vx = va.vx, !.nodes[1].vy = va.vy,
                                 !.nodes[2].x = pb.x, !.nodes[2].y = pb.y,
                                 !.nodes[2].vx = vb.vx, !.nodes[2].vy = vb.vy,
                                 !.draggedNode = IF d = 0 THEN NoNode
                                                 ELSE [gen |-> 1, idx |-> d]]>>
                 /\ raf = <<[started.cb EXCEPT !.steps = steps]>>
    /\ graphs = [el \in ElementIds |-> 1]
    /\ clock = 0
    /\ budget = 0
    /\ pathIn = NoPathIn
    /\ pathOut = NoPathOut
    /\ tv = NoTimelines
    /\ cyto = NoCyto
    /\ geo = NoMaps

NextForces ==
    /\ \A i \in DOMAIN insts : insts[i].stepsSinceStart < MaxStepCalls
    /\ Frame

SpecForces == InitForces /\ [][NextForces]_vars

\* what one call of applyForces on g divides by: the clamped dist of every
\* pair, Math.max(1, dist) of every edge with both ends found, and
\* currentDist of every node the layer retention is applied to
stepDivisors(g) ==
    {pairDist(g.nodes[i], g.nodes[j]) :
        i \in 1..Len(g.nodes), j \in 1..Len(g.nodes)}
    \cup {edgeDivisor(edgeDist(g.nodes[FindNode(g.nodes, g.edges[k].source)],
                               g.nodes[FindNode(g.nodes, g.edges[k].target)])) :
            k \in {e \in 1..Len(g.edges) :
                      /\ FindNode(g.nodes, g.edges[e].source) # 0
                      /\ FindNode(g.nodes, g.edges[e].target) # 0}}
    \cup {currentDist(g.nodes[k]) :
            k \in {n \in 1..Len(g.nodes) :
                      /\ ~isDragged(g.nodes, n, g.draggedNode)
                      /\ layerRetained(g.nodes[n], currentDist(g.nodes[n]))}}

InSquare(node) ==
    /\ node.x >= -(maxDist * F) /\ node.x <= maxDist * F
    /\ node.y >= -(maxDist * F) /\ node.y <= maxDist * F

\* C21: a simulation step divides by nothing that is zero, and leaves every
\* node it integrates (every node but the dragged one) inside the square
\* [-500, 500] x [-500, 500].
C21_StepStaysInSquare ==
    [][Frame
       => \A i \in DOMAIN insts :
             insts'[i].stepsInFrame > 0
             => /\ 0 \notin stepDivisors(insts[i])
                /\ \A k \in 1..Len(insts[i].nodes) :
                      ~isDragged(insts[i].nodes, k, insts[i].draggedNode)
                      => InSquare(insts'[i].nodes[k])]_vars

\* after a step, both nodes on the same corner of the square, the first
\* held there against a velocity larger than the square
C21_CoincidentAtCorner ==
    \E i \in DOMAIN insts :
        /\ insts[i].stepsSinceStart > 0
        /\ insts[i].draggedNode = NoNode
        /\ insts[i].nodes[1].x = maxDist * F
        /\ insts[i].nodes[1].vx > maxDist * F
        /\ insts[i].nodes[2].x = insts[i].nodes[1].x
        /\ insts[i].nodes[2].y = insts[i].nodes[1].y

----------------------------------------------------------------------------
(* Properties of the node objects an instance refers to *)

\* whether ref is null or one of the objects in g.nodes
LiveRef(g, ref) ==
    ref = NoNode \/ (ref.gen = g.gen /\ ref.idx \in 1..Len(g.nodes))

\* C22: draggedNode and selectedNode of an instance in use are each null or
\* one of the node objects of its present node list.  Checked under Spec.
C22_RefsAreLiveNodes ==
    \A i \in DOMAIN insts :
        Live(i) => /\ LiveRef(insts[i], insts[i].draggedNode)
                   /\ LiveRef(insts[i], insts[i].selectedNode)

NodeIds(g) == {g.nodes[k].id : k \in 1..Len(g.nodes)}

\* C23: every id of a path that findShortestPath returns to highlightPath is
\* the id of a node of the graph.  Checked under SpecHighlight.
C23_PathIdsAreNodes ==
    [][\A el \in ElementIds, a \in QueryIds, b \in QueryIds :
          HighlightPath(el, a, b)
          => LET g == insts[graphs[el]]
                 r == findShortestPath(g.edges, a, b)
             IN  r.found => \A k \in 1..Len(r.path) : r.path[k] \in NodeIds(g)]_vars

\* C29: the layer stored for a node that is not the centre is the layer
\* index (1 or 2) drawn for its ring.  Checked under Spec on every render.
C29_StoredLayerIsRingLayer ==
    [][\A el \in ElementIds, data \in SimPayloads :
          \A rnd \in RandomDraws(data) :
             Render(el, data, rnd)
             => LET g == insts'[graphs'[el]]
                IN  \A k \in 1..Len(g.nodes) :
                       ~g.nodes[k].isCenter
                       => g.nodes[k].layer = (rnd[k].layer * 2) \div 1000 + 1]_vars

----------------------------------------------------------------------------
(* Further properties of the timeline *)

\* C27: an object on which destroy was called holds no vis timeline, and at
\* most one vis timeline is alive for the element.  Checked under
\* SpecTimeline, whose objects all belong to the one element id.
C27_NoTimelineAfterDestroy ==
    /\ \A i \in 1..Len(tv.objs) :
          tv.objs[i].destroyCalled => tv.objs[i].visAlive = 0
    /\ Cardinality({i \in 1..Len(tv.objs) : tv.objs[i].visAlive > 0}) <= 1

\* C28: on a created timeline an item given to addItem and not removed since
\* is visible whenever it passes the filters asked for, and an id given to
\* removeItem and not added since is not visible.  Checked under
\* SpecTimelineEdits.
C28_EditsSurviveFilters ==
    \A i \in 1..Len(tv.objs) :
        LET o == tv.objs[i]
        IN  ~o.timeline.isNull
            => /\ \A it \in o.added :
                     (/\ PassesGroups(it, o.askedGroups)
                      /\ PassesRange(it, o.askedStart, o.askedEnd))
                     => it.id \in VisibleIds(o)
               /\ \A id \in o.removed : id \notin VisibleIds(o)

----------------------------------------------------------------------------
(* js/helper.js: class GeospatialMap and its exported marker functions.    *)
(* A Leaflet marker object is named by the order of its creation in its    *)
(* map; markers is the Map `this.markers` (0: no entry) and cluster the    *)
(* layers of markerClusterGroup.                                           *)

MarkerIds == {"m1", "m2"}

\* constructor and init, the container being found
GeospatialMap ==
    [map |-> TRUE, markers |-> [id \in MarkerIds |-> 0], cluster |-> {},
     created |-> 0]

\* GeospatialMap.addMarker, markerData being given with id
addMarker(o, id) ==
    IF ~o.map THEN o
    ELSE [o EXCEPT !.created = @ + 1,
                   !.markers[id] = o.created + 1,
                   !.cluster = @ \cup {o.created + 1}]

\* GeospatialMap.removeMarker
removeMarker(o, markerId) ==
    IF o.markers[markerId] = 0 THEN o
    ELSE [o EXCEPT !.cluster = @ \ {o.markers[markerId]},
                   !.markers[markerId] = 0]

\* GeospatialMap.clearMarkers
clearMarkers(o) ==
    [o EXCEPT !.cluster = {}, !.markers = [id \in MarkerIds |-> 0]]

\* GeospatialMap.destroy: map.remove() takes every layer with it
destroyMapInstance(o) ==
    [o EXCEPT !.map = FALSE, !.cluster = {},
              !.markers = [id \in MarkerIds |-> 0]]

GeoIdle ==
    UNCHANGED <<graphs, insts, raf, clock, budget, pathIn, pathOut, tv, cyto>>

\* an exported function for the map registered for el, which it turns into o
GeoCall(el, o) ==
    /\ geo.budget > 0
    /\ geo.maps[el] # 0
    /\ geo' = [geo EXCEPT !.objs[geo.maps[el]] = o, !.budget = @ - 1]
    /\ GeoIdle

\* initializeMap(containerId, options, dotNetHelper) on a container that
\* holds no map (L.map throws on one that does, and the registry is kept)
InitializeMap(el) ==
    /\ geo.budget > 0
    /\ geo.maps[el] = 0
    /\ geo' = [geo EXCEPT !.objs = Append(@, GeospatialMap),
                          !.maps[el] = Len(geo.objs) + 1,
                          !.budget = @ - 1]
    /\ GeoIdle

\* destroyMap(containerId)
DestroyMap(el) ==
    /\ geo.budget > 0
    /\ geo.maps[el] # 0
    /\ geo' = [geo EXCEPT !.objs[geo.maps[el]] = destroyMapInstance(@),
                          !.maps[el] = 0,
                          !.budget = @ - 1]
    /\ GeoIdle

\* addMarker(containerId, markerData)
AddMarker(el, id) == GeoCall(el, addMarker(geo.objs[geo.maps[el]], id))

\* removeMarker(containerId, markerId)
RemoveMarker(el, id) == GeoCall(el, removeMarker(geo.objs[geo.maps[el]], id))

\* clearMarkers(containerId)
ClearMarkers(el) == GeoCall(el, clearMarkers(geo.objs[geo.maps[el]]))

NextMap ==
    \/ \E el \in MapIds : InitializeMap(el)
    \/ \E el \in MapIds : DestroyMap(el)
    \/ \E el \in MapIds, id \in MarkerIds : AddMarker(el, id)
    \/ \E el \in MapIds, id \in MarkerIds : RemoveMarker(el, id)
    \/ \E el \in MapIds : ClearMarkers(el)

SpecMap == Init /\ [][NextMap]_vars

\* the marker objects the registry holds
Registry(o) == {o.markers[id] : id \in {m \in MarkerIds : o.markers[m] # 0}}

\* C30: the markers in the cluster layer of a map are exactly the values of
\* its marker registry.
C30_ClusterIsRegistry ==
    \A i \in 1..Len(geo.objs) : geo.objs[i].cluster = Registry(geo.objs[i])

----------------------------------------------------------------------------
(* The Cytoscape graph: loadCytoscape, loadScript, class                   *)
(* CytoscapeNetworkGraph and the exported functions.                       *)
(*                                                                         *)
(* The three library scripts are numbered in the order loadCytoscape       *)
(* loads them (cytoscape, cose-bilkent, dagre).  cyto.tags holds the       *)
(* scripts with a script element in the document, cyto.ran the scripts     *)
(* that loaded, cyto.inflight the script whose load is awaited (0: none).  *)
(* An object records where its init is suspended (wait: "load" in the      *)
(* loadScript calls, "poll" in the setInterval of loadCytoscape, "none"),  *)
(* what loadCytoscape resolved for it (result), whether this.cy holds a    *)
(* Cytoscape instance, and unhonoured: an applyLayout call returned at the *)
(* layoutRunning test and no layout run has started since.                 *)
(* cyto.destroyed[el] says that destroy(el) was called after the last      *)
(* render(el).  A continuation after an await whose promise is already     *)
(* resolved runs before any other callback, so it is part of the step.     *)

Scripts == 1..3

\* the first script from k on without a script element (0: none): loadScript
\* resolves at once for the others
nextAwaited(tags, k) ==
    IF \E j \in Scripts : j >= k /\ j \notin tags
    THEN CHOOSE j \in Scripts :
            /\ j >= k /\ j \notin tags
            /\ \A h \in Scripts : (h >= k /\ h \notin tags) => j <= h
    ELSE 0

\* constructor
CytoscapeNetworkGraph(el) ==
    [el |-> el, cy |-> FALSE, layoutRunning |-> FALSE, wait |-> "none",
     result |-> "pending", unhonoured |-> FALSE, nodes |-> 0]

\* CytoscapeNetworkGraph.applyLayout
applyLayout(o) ==
    IF o.layoutRunning THEN [o EXCEPT !.unhonoured = TRUE]
    ELSE [o EXCEPT !.layoutRunning = TRUE, !.unhonoured = FALSE]

\* CytoscapeNetworkGraph.destroy of cyto.objs[i]
destroyGraph(c, i) ==
    [c EXCEPT !.objs[i].cy = FALSE, !.graphs[c.objs[i].el] = 0]

\* init after loadCytoscape has resolved true: createContainer,
\* createCytoscape (a TypeError, caught by init, when window.cytoscape is
\* not defined), addData, applyLayout
initGraph(c, i) ==
    IF 1 \notin c.ran
    THEN [c EXCEPT !.objs[i].wait = "none", !.objs[i].result = "true"]
    ELSE [c EXCEPT !.objs[i] = applyLayout([@ EXCEPT !.cy = TRUE,
                                                     !.wait = "none",
                                                     !.result = "true"]),
                   !.graphs[c.objs[i].el] = i]

\* loadCytoscape of object i once its loadScript calls are through: the
\* extensions are registered (window.cytoscape.use throws when an extension
\* is defined and cytoscape is not; ext says whether an extension that ran
\* without cytoscape defined its global), the flags are set, true returned
finishLoad(c, i, ext) ==
    IF 1 \notin c.ran /\ ext /\ c.ran \cap {2, 3} # {}
    THEN [c EXCEPT !.loading = FALSE, !.inflight = 0,
                   !.objs[i].wait = "none", !.objs[i].result = "false"]
    ELSE initGraph([c EXCEPT !.loaded = TRUE, !.loading = FALSE,
                             !.inflight = 0], i)

\* loadCytoscape of object i from its k-th loadScript on
loadFrom(c, i, k, ext) ==
    LET j == nextAwaited(c.tags, k)
    IN  IF j = 0 THEN finishLoad(c, i, ext)
        ELSE [c EXCEPT !.tags = @ \cup {j}, !.inflight = j,
                       !.objs[i].wait = "load"]

\* loadCytoscape called by the init of object i
loadCytoscape(c, i, ext) ==
    IF c.loaded THEN initGraph(c, i)
    ELSE IF c.loading THEN [c EXCEPT !.objs[i].wait = "poll"]
    ELSE loadFrom([c EXCEPT !.loading = TRUE], i, 1, ext)

CytoIdle ==
    UNCHANGED <<graphs, insts, raf, clock, budget, pathIn, pathOut, tv, geo>>

\* render(elementId, graphData, dotNetHelper, options), the container found
CyRender(el, ext) ==
    LET old == IF cyto.graphs[el] # 0 THEN destroyGraph(cyto, cyto.graphs[el])
               ELSE cyto
        i == Len(cyto.objs) + 1
        made == [old EXCEPT !.objs = Append(@, CytoscapeNetworkGraph(el)),
                            !.destroyed[el] = FALSE,
                            !.budget = @ - 1]
    IN  /\ cyto.budget > 0
        /\ cyto' = loadCytoscape(made, i, ext)
        /\ CytoIdle

\* destroy(elementId)
CyDestroy(el) ==
    LET old == IF cyto.graphs[el] # 0 THEN destroyGraph(cyto, cyto.graphs[el])
               ELSE cyto
    IN  /\ cyto.budget > 0
        /\ cyto' = [old EXCEPT !.destroyed[el] = TRUE, !.budget = @ - 1]
        /\ CytoIdle

\* script.onload of the script awaited
CyScriptLoaded(ext) ==
    /\ cyto.inflight # 0
    /\ \E i \in 1..Len(cyto.objs) :
          /\ cyto.objs[i].wait = "load"
          /\ cyto' = loadFrom([cyto EXCEPT !.ran = @ \cup {cyto.inflight}], i,
                              cyto.inflight + 1, ext)
    /\ CytoIdle

\* script.onerror of the script awaited: loadCytoscape returns false
CyScriptFailed ==
    /\ cyto.inflight # 0
    /\ \E i \in 1..Len(cyto.objs) :
          /\ cyto.objs[i].wait = "load"
          /\ cyto' = [cyto EXCEPT !.loading = FALSE, !.inflight = 0,
                                  !.objs[i].wait = "none",
                                  !.objs[i].result = "false"]
    /\ CytoIdle

\* a tick of the setInterval of object i that finds cytoscapeLoaded set
CyPollTick(i) ==
    /\ i \in 1..Len(cyto.objs)
    /\ cyto.objs[i].wait = "poll"
    /\ cyto.loaded
    /\ cyto' = initGraph(cyto, i)
    /\ CytoIdle

\* an exported function for the graph registered for el, which it turns
\* into o
CyCall(el, o) ==
    /\ cyto.budget > 0
    /\ cyto.graphs[el] # 0
    /\ cyto' = [cyto EXCEPT !.objs[cyto.graphs[el]] = o, !.budget = @ - 1]
    /\ CytoIdle

\* applyLayout(elementId, layoutName, options)
CyApplyLayout(el) == CyCall(el, applyLayout(cyto.objs[cyto.graphs[el]]))

\* resetLayout(elementId): clearSelection, clearHighlight, applyLayout
CyResetLayout(el) == CyCall(el, applyLayout(cyto.objs[cyto.graphs[el]]))

\* addNode(elementId, nodeData): cy.add, applyLayout
CyAddNode(el) ==
    CyCall(el, applyLayout([cyto.objs[cyto.graphs[el]] EXCEPT !.nodes = @ + 1]))

\* 'layoutstop' of the layout run of object i
CyLayoutStop(i) ==
    /\ i \in 1..Len(cyto.objs)
    /\ cyto.objs[i].cy
    /\ cyto.objs[i].layoutRunning
    /\ cyto' = [cyto EXCEPT !.objs[i].layoutRunning = FALSE]
    /\ CytoIdle

NextCyto ==
    \/ \E el \in ElementIds, ext \in BOOLEAN : CyRender(el, ext)
    \/ \E el \in ElementIds : CyDestroy(el)
    \/ \E ext \in BOOLEAN : CyScriptLoaded(ext)
    \/ CyScriptFailed
    \/ \E i \in 1..Len(cyto.objs) : CyPollTick(i)
    \/ \E el \in ElementIds : CyApplyLayout(el)
    \/ \E el \in ElementIds : CyResetLayout(el)
    \/ \E el \in ElementIds : CyAddNode(el)
    \/ \E i \in 1..Len(cyto.objs) : CyLayoutStop(i)

SpecCyto == Init /\ [][NextCyto]_vars

\* the objects of el that hold a Cytoscape instance
LiveGraphs(el) ==
    {i \in 1..Len(cyto.objs) : cyto.objs[i].el = el /\ cyto.objs[i].cy}

\* C24: at most one object per element id holds a Cytoscape instance, and
\* once destroy(elementId) was called with no render after it, none does and
\* none is registered.
C24_OneLiveGraphPerElement ==
    \A el \in ElementIds :
        /\ Cardinality(LiveGraphs(el)) <= 1
        /\ cyto.destroyed[el] => (cyto.graphs[el] = 0 /\ LiveGraphs(el) = {})

\* C25: loadCytoscape resolves true only when the three scripts have loaded,
\* and a call that waits in the polling loop can still resolve: a load is
\* under way or the library is marked loaded.
C25_LoadResolves ==
    \A i \in 1..Len(cyto.objs) :
        /\ cyto.objs[i].result = "true" => cyto.ran = Scripts
        /\ cyto.objs[i].wait = "poll" => (cyto.loading \/ cyto.loaded)

\* C26: on a graph in use, an applyLayout call that was turned away is
\* followed by a layout run: no such call is left over once the layout has
\* stopped.
C26_NoRelayoutLost ==
    \A i \in 1..Len(cyto.objs) :
        (cyto.objs[i].cy /\ cyto.objs[i].unhonoured) => cyto.objs[i].layoutRunning

====
